---- MODULE Spec2Model ----
(***************************************************************************)
(* Model of the search orchestration engine of slskd-spotify-self-host:    *)
(* the work queue (QueueManager), the progress state (search_state), the   *)
(* batch runs and their worker pool (background_search_task/process_item), *)
(* the filtering and ranking of offers, the result store (SearchManager)   *)
(* and the download ledger (ISRCTracker) with the download routes.         *)
(***************************************************************************)
EXTENDS Integers, Sequences, FiniteSets, TLC

VARIABLES
    queue,          \* QueueManager.queue
    lastAdded,      \* return value of the last QueueManager.add_items call
    search_state,   \* the global search_state dict
    runs,           \* invocations of background_search_task (one thread each)
    results,        \* SearchManager.results: 'albums' and (legacy) 'tracks'
    downloads,      \* ISRCTracker.downloads['downloads']
    reqs,           \* requests served by the web threads (download routes, delete route)
    CONFIG,         \* the global CONFIG dict (the entries the engine reads)
    peer,           \* the peer search service: query text -> 'files' it returns
    offers,         \* input of rank_and_filter_results: <<results, musicbrainz_metadata>>
    ranked,         \* output of rank_and_filter_results (<<"none">> before the call)
    call,           \* arguments of the latest SearchManager.add_track_results call
    http,           \* SlskdClient requests of one item's query variants
    limiter,        \* MusicBrainzClient.last_request_time, its callers, the clock
    disk            \* QUEUE_FILE and STATE_FILE as last written, and the process starts

vars == <<queue, lastAdded, search_state, runs, results, downloads, reqs, CONFIG, peer, offers, ranked,
          call, http, limiter, disk>>

\* ---------------------------------------------------------------- bounds
MaxQueue == 4       \* longest queue explored
MaxAdd == 2         \* longest list passed to one add_items call
MaxRestarts == 1    \* restarts of the process explored

\* ------------------------------------------------------------- helpers
Range(s) == {s[i] : i \in 1..Len(s)}

SeqsUpTo(S, n) == UNION {[1..k -> S] : k \in 0..n}

\* ------------------------------------------------------------ work items
\* {artist, title, album} dicts as start_search receives them
ItemSeq ==
    << [artist |-> "a", title |-> "x", album |-> ""],
       [artist |-> "b & c", title |-> "z", album |-> ""],
       [artist |-> "a", title |-> "y", album |-> "al"] >>
Items == {ItemSeq[i] : i \in 1..Len(ItemSeq)}

\* f"{i['artist']}-{i['title']}", the key add_items compares
QueueKey(i) == i.artist \o "-" \o i.title

\* ---------------------------------------------------------- QueueManager
\* the items add_items appends: current_keys is computed once, before the loop
NewItems(q, items) ==
    LET current_keys == {QueueKey(q[i]) : i \in 1..Len(q)}
    IN  SelectSeq(items, LAMBDA it : QueueKey(it) \notin current_keys)

\* the data directory of a first start: no queue file (load_queue leaves the
\* queue empty) and no state file; boots counts the restarts of the process
FreshDisk == [queue |-> <<>>, state |-> <<>>, boots |-> 0]

\* save_queue (a write that succeeds): the whole queue replaces QUEUE_FILE
save_queue(q) == disk' = [disk EXCEPT !.queue = q]

add_items(items) ==
    /\ queue' = queue \o NewItems(queue, items)
    /\ lastAdded' = Len(NewItems(queue, items))
    /\ save_queue(queue')

QAddItems ==
    \E items \in SeqsUpTo(Items, MaxAdd) :
        /\ Len(queue) + Len(items) <= MaxQueue
        /\ add_items(items)
        /\ UNCHANGED <<search_state, runs, results, downloads, reqs, CONFIG, peer, offers, ranked, call, http, limiter>>

\* variant of get_next that pops the item without writing the file
QGetNext_unsaved ==
    /\ queue /= <<>>
    /\ queue' = Tail(queue)
    /\ UNCHANGED <<lastAdded, search_state, runs, results, downloads, reqs, CONFIG, peer, offers, ranked, call, http, limiter, disk>>

QGetNext ==
    /\ queue /= <<>>
    /\ queue' = Tail(queue)
    /\ save_queue(queue')
    /\ UNCHANGED <<lastAdded, search_state, runs, results, downloads, reqs, CONFIG, peer, offers, ranked, call, http, limiter>>

QClear ==
    /\ queue' = <<>>
    /\ save_queue(queue')
    /\ UNCHANGED <<lastAdded, search_state, runs, results, downloads, reqs, CONFIG, peer, offers, ranked, call, http, limiter>>

\* the process is started again: QueueManager.__init__ runs load_queue, which
\* reads QUEUE_FILE back (no add_items call has returned in this process yet)
load_queue ==
    /\ queue' = disk.queue
    /\ lastAdded' = 0

QRestart ==
    /\ disk.boots < MaxRestarts
    /\ load_queue
    /\ disk' = [disk EXCEPT !.boots = @ + 1]
    /\ UNCHANGED <<search_state, runs, results, downloads, reqs, CONFIG, peer, offers, ranked, call, http, limiter>>

InitQueue ==
    /\ queue = <<>> /\ lastAdded = 0
    /\ search_state = <<>> /\ runs = <<>> /\ results = <<>>
    /\ downloads = <<>> /\ reqs = <<>> /\ CONFIG = <<>> /\ peer = <<>>
    /\ offers = <<>> /\ ranked = <<>>
    /\ call = <<>> /\ http = <<>> /\ limiter = <<>>
    /\ disk = FreshDisk

NextQueue == QAddItems \/ QGetNext \/ QClear \/ QRestart

\* the QueueManager under any sequence of add_items, get_next and clear calls
\* and restarts of the process
SpecQueue == InitQueue /\ [][NextQueue]_vars

\* C3: no two entries of the queue have the same identity key.
C3_NoDuplicateKeys ==
    \A i, j \in 1..Len(queue) :
        i /= j => QueueKey(queue[i]) /= QueueKey(queue[j])

\* ------------------------------------------------------------- CONFIG
MAX_FILE_SIZE_MB == 30
TOP_RESULTS_COUNT == 50
QUEUE_HARD_CEILING == 1000
\* values of TOP_RESULTS_COUNT the settings page has saved
TopChoices == {1, 2, TOP_RESULTS_COUNT}

DEFAULT_CONFIG ==
    [MAX_FILE_SIZE_MB |-> MAX_FILE_SIZE_MB, TOP_RESULTS_COUNT |-> TOP_RESULTS_COUNT]

\* ------------------------------------------------------- offers (result_dict)
\* str.lower() on the extensions that occur
Lower(s) == CASE s = "MP4" -> "mp4" [] s = "FLAC" -> "flac" [] OTHER -> s

MaxSizeBytes == 31457280     \* 30 * 1024 * 1024

\* A result_dict as process_item builds it. The string computations the scorer
\* makes on (requested_title, filename) are carried as fields: bl_hits is the
\* number of blacklist words in the cleaned filename and not in the title,
\* title_in_name is `clean_title in clean_filename`, ratio is
\* SequenceMatcher(...).ratio() in percent; album_in_name and album_ratio are
\* the same two computations on (canonical album, filename);
\* duration_seconds 0 stands for None.
BaseOffer ==
    [username |-> "u1", filename |-> "f1", size |-> 5000000, bitrate |-> 320,
     extension |-> "mp3", queue_length |-> 0, speed_kbs |-> 200,
     is_locked |-> FALSE, duration_seconds |-> 0,
     bl_hits |-> 0, title_in_name |-> TRUE, ratio |-> 60,
     album_in_name |-> FALSE, album_ratio |-> 20]

OfferUniverse ==
    { BaseOffer,
      [BaseOffer EXCEPT !.queue_length = 50],
      [BaseOffer EXCEPT !.queue_length = 1000],
      [BaseOffer EXCEPT !.queue_length = 1001],
      [BaseOffer EXCEPT !.extension = "MP4", !.filename = "f2"],
      [BaseOffer EXCEPT !.extension = "mkv", !.filename = "f3", !.ratio = 90],
      [BaseOffer EXCEPT !.is_locked = TRUE],
      [BaseOffer EXCEPT !.size = MaxSizeBytes],
      [BaseOffer EXCEPT !.size = MaxSizeBytes + 1, !.extension = "flac"],
      [BaseOffer EXCEPT !.username = "u2", !.extension = "FLAC", !.queue_length = 3],
      [BaseOffer EXCEPT !.username = "u2", !.bitrate = 128, !.ratio = 30],
      [BaseOffer EXCEPT !.username = "u3", !.duration_seconds = 211, !.album_in_name = TRUE],
      \* file names with one and with two blacklisted words the title lacks
      [BaseOffer EXCEPT !.filename = "f5", !.bl_hits = 1],
      [BaseOffer EXCEPT !.filename = "f6", !.bl_hits = 2],
      [BaseOffer EXCEPT !.filename = "f7", !.bl_hits = 1, !.title_in_name = FALSE, !.ratio = 50] }

\* A file entry of the peer service's response (the keys process_item reads),
\* with Path(filename).suffix and the scorer's string computations as fields
BaseFile ==
    [username |-> "u1", filename |-> "f1", suffix |-> ".mp3", size |-> 5000000,
     bitRate |-> 320, queueLength |-> 0, uploadSpeed |-> 204800,
     isLocked |-> FALSE, length |-> 0,
     bl_hits |-> 0, title_in_name |-> TRUE, ratio |-> 60,
     album_in_name |-> FALSE, album_ratio |-> 20]

\* Path(filename).suffix.lower().replace('.', '')
Ext(suffix) ==
    CASE suffix = ".mp3" -> "mp3" [] suffix = ".MP4" -> "mp4" [] suffix = ".mp4" -> "mp4"
      [] suffix = ".flac" -> "flac" [] suffix = ".FLAC" -> "flac" [] OTHER -> ""

\* lines 1051-1075: the result_dict built from one file entry
ResultDict(f) ==
    [username |-> f.username, filename |-> f.filename, size |-> f.size,
     bitrate |-> f.bitRate, extension |-> Ext(f.suffix),
     queue_length |-> f.queueLength, speed_kbs |-> f.uploadSpeed \div 1024,
     is_locked |-> f.isLocked, duration_seconds |-> f.length,
     bl_hits |-> f.bl_hits, title_in_name |-> f.title_in_name, ratio |-> f.ratio,
     album_in_name |-> f.album_in_name, album_ratio |-> f.album_ratio]

\* lines 1048-1078
ParseFiles(files) == [i \in 1..Len(files) |-> ResultDict(files[i])]

\* Optional values: None is <<>>, a present value v is <<v>>
None == <<>>
Some(v) == <<v>>

\* musicbrainz_metadata: None or the dict search_recording returns
\* (isrc "None" stands for a null 'isrc' entry)
MbMeta == [isrc |-> "A", duration_ms |-> 210000, album |-> "al", musicbrainz_id |-> "m1"]
MbChoices == {None, Some(MbMeta)}

\* ------------------------------------------------ passes_quality_filters
video_extensions == {"mkv", "mp4", "avi", "mov", "wmv", "flv", "webm", "mpg", "mpeg", "m4v"}

\* variant without the locked check
passes_quality_filters_unlocked(file_info, cfg) ==
    IF Lower(file_info.extension) \in video_extensions THEN FALSE
    ELSE IF file_info.size > cfg.MAX_FILE_SIZE_MB * 1024 * 1024 THEN FALSE
    ELSE IF file_info.queue_length > QUEUE_HARD_CEILING THEN FALSE
    ELSE TRUE

\* variant without the queue ceiling
passes_quality_filters_no_ceiling(file_info, cfg) ==
    IF Lower(file_info.extension) \in video_extensions THEN FALSE
    ELSE IF file_info.size > cfg.MAX_FILE_SIZE_MB * 1024 * 1024 THEN FALSE
    ELSE IF file_info.is_locked THEN FALSE
    ELSE TRUE

passes_quality_filters(file_info, cfg) ==
    IF Lower(file_info.extension) \in video_extensions THEN FALSE
    ELSE IF file_info.size > cfg.MAX_FILE_SIZE_MB * 1024 * 1024 THEN FALSE
    ELSE IF file_info.is_locked THEN FALSE
    ELSE IF file_info.queue_length > QUEUE_HARD_CEILING THEN FALSE
    ELSE TRUE

\* ------------------------------------------------ calculate_quality_score
NameTerm(f) ==
    (0 - 500 * f.bl_hits)
    + (IF f.title_in_name THEN 50 ELSE 0)
    + (IF f.ratio > 85 THEN 100
       ELSE IF f.ratio > 70 THEN 50
       ELSE IF f.ratio < 40 THEN 0 - 100 ELSE 0)

BitrateTerm(f) ==
    IF Lower(f.extension) \in {"flac", "wav", "alac", "ape"} THEN 50
    ELSE IF f.bitrate >= 320 THEN 40
    ELSE IF f.bitrate >= 192 THEN 30
    ELSE 0 - 100

QueueTerm(f) ==
    IF f.queue_length = 0 THEN 50
    ELSE IF f.queue_length <= 3 THEN 0 - 10
    ELSE IF f.queue_length >= 10 THEN 0 - 100
    ELSE 0

SpeedTerm(f) ==
    IF f.speed_kbs >= 1000 THEN 20
    ELSE IF f.speed_kbs >= 100 THEN 10
    ELSE 0

Abs(n) == IF n < 0 THEN 0 - n ELSE n

\* lines 232-241: `official_album in filename.lower()`
AlbumInNameTerm(f, mb) ==
    IF mb /= None /\ mb[1].album /= "" /\ f.album_in_name THEN 30 ELSE 0

\* lines 244-265, in milliseconds
DurationTerm(f, mb) ==
    IF mb /= None /\ mb[1].duration_ms /= 0 /\ f.duration_seconds /= 0
    THEN LET diff == Abs(mb[1].duration_ms - 1000 * f.duration_seconds)
         IN  IF diff <= 2000 THEN 100
             ELSE IF diff <= 5000 THEN 50
             ELSE IF diff <= 10000 THEN 20
             ELSE 0 - 200
    ELSE 0

\* lines 268-282
AlbumRatioTerm(f, mb) ==
    IF mb /= None /\ mb[1].album /= ""
    THEN IF f.album_ratio > 70 THEN 75
         ELSE IF f.album_ratio > 50 THEN 30 ELSE 0
    ELSE 0

calculate_quality_score(f, mb) ==
    NameTerm(f) + AlbumInNameTerm(f, mb) + DurationTerm(f, mb) + AlbumRatioTerm(f, mb)
    + BitrateTerm(f) + QueueTerm(f) + SpeedTerm(f)

\* ------------------------------------------------ rank_and_filter_results
RECURSIVE InsertDesc(_, _)
\* place r behind every entry whose score is >= its own (list.sort is stable)
InsertDesc(sorted, r) ==
    IF sorted = <<>> THEN <<r>>
    ELSE IF Head(sorted).quality_score >= r.quality_score
         THEN <<Head(sorted)>> \o InsertDesc(Tail(sorted), r)
         ELSE <<r>> \o sorted

RECURSIVE SortDesc(_)
\* list.sort(key=quality_score, reverse=True)
SortDesc(s) ==
    IF s = <<>> THEN <<>>
    ELSE InsertDesc(SortDesc(SubSeq(s, 1, Len(s) - 1)), s[Len(s)])

\* s[:n] for n >= 0
Take(s, n) == SubSeq(s, 1, IF n < Len(s) THEN n ELSE Len(s))

Scored(r, mb) == r @@ [quality_score |-> calculate_quality_score(r, mb)]

RECURSIVE FilterAndScore(_, _, _)
FilterAndScore(rs, mb, cfg) ==
    IF rs = <<>> THEN <<>>
    ELSE (IF passes_quality_filters(Head(rs), cfg) THEN <<Scored(Head(rs), mb)>> ELSE <<>>)
         \o FilterAndScore(Tail(rs), mb, cfg)

rank_and_filter_results(rs, mb, cfg) ==
    Take(SortDesc(FilterAndScore(rs, mb, cfg)), cfg.TOP_RESULTS_COUNT)

\* ------------------------------------------------------- SearchManager
\* _create_empty_results: {'albums': {}, 'tracks': {}} (maps as functions)
EmptyMap == [k \in {} |-> <<>>]
EmptyResults == [albums |-> EmptyMap, tracks |-> EmptyMap]

\* dict.get(key): None when absent
Get(map, key) == IF key \in DOMAIN map THEN Some(map[key]) ELSE None

\* get_track_results reads only the legacy 'tracks' map (the 'artists' branch
\* is taken only by a results file without 'tracks')
get_track_results(res, track_key) == Get(res.tracks, track_key)

\* index of the first track of the album with this title, 0 when there is none
FindTitle(tracks, title) ==
    LET idx == {i \in 1..Len(tracks) : tracks[i].title = title}
    IN  IF idx = {} THEN 0 ELSE CHOOSE i \in idx : \A j \in idx : i <= j

\* dict.update(track_data): 'musicbrainz' is set only when the new call has one
UpdateTrack(old, new) ==
    [new EXCEPT !.musicbrainz = IF new.musicbrainz /= None THEN new.musicbrainz
                                ELSE old.musicbrainz]

\* variant that stores nothing for an empty results list
add_track_results_nonempty(res, track_key, artist, title, album, rs, mb) ==
    IF rs = <<>> THEN res ELSE
    LET album_name == IF album /= "" THEN album ELSE "Unknown Album"
        album_key == artist \o " - " \o album_name
        album_data == IF album_key \in DOMAIN res.albums THEN res.albums[album_key]
                      ELSE [name |-> album_name, artist |-> artist, tracks |-> <<>>]
        existing == FindTitle(album_data.tracks, title)
        track_data == [artist |-> artist, title |-> title, album |-> album_name,
                       result_count |-> Len(rs), reviewed |-> FALSE,
                       results |-> rs, key |-> track_key, musicbrainz |-> mb]
        tracks == IF existing /= 0
                  THEN [album_data.tracks EXCEPT
                            ![existing] = UpdateTrack(album_data.tracks[existing], track_data)]
                  ELSE Append(album_data.tracks, track_data)
    IN  [res EXCEPT !.albums =
            (album_key :> [album_data EXCEPT !.tracks = tracks]) @@ res.albums]

add_track_results(res, track_key, artist, title, album, rs, mb) ==
    LET album_name == IF album /= "" THEN album ELSE "Unknown Album"
        album_key == artist \o " - " \o album_name
        album_data == IF album_key \in DOMAIN res.albums THEN res.albums[album_key]
                      ELSE [name |-> album_name, artist |-> artist, tracks |-> <<>>]
        existing == FindTitle(album_data.tracks, title)
        track_data == [artist |-> artist, title |-> title, album |-> album_name,
                       result_count |-> Len(rs), reviewed |-> FALSE,
                       results |-> rs, key |-> track_key, musicbrainz |-> mb]
        tracks == IF existing /= 0
                  THEN [album_data.tracks EXCEPT
                            ![existing] = UpdateTrack(album_data.tracks[existing], track_data)]
                  ELSE Append(album_data.tracks, track_data)
    IN  [res EXCEPT !.albums =
            (album_key :> [album_data EXCEPT !.tracks = tracks]) @@ res.albums]

\* ------------------------------------------------ background_search_task
NumWorkers == 2     \* worker threads of one batch's pool
MaxRuns == 2        \* invocations of background_search_task explored
MaxBatch == 2       \* longest list one start_search request carries

RunIds == 1..MaxRuns
WorkerIds == 1..NumWorkers

NoItem == [artist |-> "", title |-> "", album |-> ""]
IdleWorker ==
    [pc |-> "idle", item |-> NoItem, queries |-> <<>>, artist |-> "",
     collected |-> <<>>, tmp |-> 0]
\* cancelled records that cancel_search was called while the run's batch was
\* in progress
FreshRun ==
    [pc |-> "unused", items |-> <<>>, batch |-> <<>>, pending |-> <<>>,
     skipped |-> <<>>, cancelled |-> FALSE, w |-> [i \in WorkerIds |-> IdleWorker]]

\* positions of background_search_task between line 941 and line 1159
BatchPcs == {"drain", "submit", "pool"}

\* load_application_state when there is no state file
DefaultState ==
    [active |-> FALSE, progress |-> 0, total |-> 0, errors |-> <<>>, completed |-> FALSE]

\* save_application_state: the dict replaces STATE_FILE
save_application_state(state) == disk' = [disk EXCEPT !.state = <<state>>]

\* load_application_state: the file's content, the default without a file
load_application_state == IF disk.state /= <<>> THEN disk.state[1] ELSE DefaultState

\* artist_str.replace('&', ',').split(','), stripped, empties dropped
SplitArtists(artist_str) ==
    CASE artist_str = "b & c" -> <<"b", "c">>
      [] artist_str = "" -> <<"">>
      [] OTHER -> <<artist_str>>

\* the queries of mode artist_title (the texts here have no romaji variant)
Queries(item) ==
    LET artists == SplitArtists(item.artist)
    IN  [i \in 1..Len(artists) |->
            [artist |-> artists[i],
             query |-> IF item.title /= "" THEN artists[i] \o " " \o item.title
                       ELSE artists[i]]]

\* the 'files' the peer service returns for a query text (none for a text it
\* does not know)
Files(query) == IF query \in DOMAIN peer THEN peer[query] ELSE <<>>

\* the request bodies of POST /search/start explored: the first k items
Payloads == {SubSeq(ItemSeq, 1, k) : k \in 1..(IF MaxBatch < Len(ItemSeq) THEN MaxBatch ELSE Len(ItemSeq))}

\* the key process_item persists under (artist is the loop variable's last value)
MainKey(artist, title) == IF title /= "" THEN artist \o " - " \o title ELSE artist

\* line 1101: key = f"{r['username']}_{r['filename']}"
DedupKey(r) == r.username \o "_" \o r.filename

RECURSIVE Dedup(_, _)
\* lines 1098-1105: first occurrence of each f"{username}_{filename}" kept
Dedup(rs, seen) ==
    IF rs = <<>> THEN <<>>
    ELSE LET key == DedupKey(Head(rs))
         IN  IF key \in seen THEN Dedup(Tail(rs), seen)
             ELSE <<Head(rs)>> \o Dedup(Tail(rs), seen \cup {key})

\* variant that keeps every deduplicated offer
FinalResults_untruncated(collected, cfg) == SortDesc(Dedup(collected, {}))

\* variant that keeps repeated offers
FinalResults_repeated(collected, cfg) == Take(SortDesc(collected), cfg.TOP_RESULTS_COUNT)

\* lines 1098-1109
FinalResults(collected, cfg) == Take(SortDesc(Dedup(collected, {})), cfg.TOP_RESULTS_COUNT)

\* POST /search/start with one of the request bodies, served by a new thread
StartSearch(payloads, ids) ==
    \E artists \in payloads, r \in ids :
        /\ ~search_state.active
        /\ LET filtered == SelectSeq(artists, LAMBDA a :
                    get_track_results(results, MainKey(a.artist, a.title)) = None)
           IN  /\ filtered /= <<>>
               /\ runs[r].pc = "unused"
               /\ \A q \in RunIds : q < r => runs[q].pc /= "unused"
               /\ runs' = [runs EXCEPT ![r] = [@ EXCEPT !.pc = "add", !.items = filtered]]
        /\ UNCHANGED <<queue, lastAdded, search_state, results, downloads, reqs, CONFIG, peer, offers, ranked, call, http, limiter, disk>>

start_search == StartSearch(Payloads, RunIds)

\* POST /search/cancel
cancel_search ==
    /\ search_state' = [search_state EXCEPT !.active = FALSE]
    /\ runs' = [r \in RunIds |->
            IF runs[r].pc \in BatchPcs THEN [runs[r] EXCEPT !.cancelled = TRUE] ELSE runs[r]]
    /\ UNCHANGED <<queue, lastAdded, results, downloads, reqs, CONFIG, peer, offers, ranked, call, http, limiter, disk>>

\* lines 930-932
BgAdd(r) ==
    /\ runs[r].pc = "add"
    /\ add_items(runs[r].items)
    /\ runs' = [runs EXCEPT ![r].pc = "guard"]
    /\ UNCHANGED <<search_state, results, downloads, reqs, CONFIG, peer, offers, ranked, call, http, limiter>>

\* lines 935-936
BgGuard(r) ==
    /\ runs[r].pc = "guard"
    /\ runs' = [runs EXCEPT ![r].pc = IF search_state.active THEN "returned" ELSE "init"]
    /\ UNCHANGED <<queue, lastAdded, search_state, results, downloads, reqs, CONFIG, peer, offers, ranked, call, http, limiter, disk>>

\* lines 941-948
BgInit(r) ==
    /\ runs[r].pc = "init"
    /\ search_state' = [search_state EXCEPT
            !.active = TRUE,
            !.total = Len(queue) + search_state.progress,
            !.errors = <<>>,
            !.completed = FALSE]
    /\ save_application_state(search_state')
    /\ runs' = [runs EXCEPT ![r].pc = "drain"]
    /\ UNCHANGED <<queue, lastAdded, results, downloads, reqs, CONFIG, peer, offers, ranked, call, http, limiter>>

\* variant whose get_next returns the first item without removing it
BgDrain_peek(r) ==
    /\ runs[r].pc = "drain"
    /\ IF queue /= <<>>
       THEN /\ runs' = [runs EXCEPT ![r].batch = Append(@, Head(queue))]
            /\ UNCHANGED <<queue, disk>>
       ELSE /\ runs' = [runs EXCEPT ![r].pc = "submit"]
            /\ UNCHANGED <<queue, disk>>
    /\ UNCHANGED <<lastAdded, search_state, results, downloads, reqs, CONFIG, peer, offers, ranked, call, http, limiter>>

\* variant whose get_next takes the last item
BgDrain_lifo(r) ==
    /\ runs[r].pc = "drain"
    /\ IF queue /= <<>>
       THEN /\ queue' = SubSeq(queue, 1, Len(queue) - 1)
            /\ save_queue(queue')
            /\ runs' = [runs EXCEPT ![r].batch = Append(@, queue[Len(queue)])]
       ELSE /\ runs' = [runs EXCEPT ![r].pc = "submit"]
            /\ UNCHANGED <<queue, disk>>
    /\ UNCHANGED <<lastAdded, search_state, results, downloads, reqs, CONFIG, peer, offers, ranked, call, http, limiter>>

\* lines 1144-1148: one queue_manager.get_next() of the drain loop
BgDrain(r) ==
    /\ runs[r].pc = "drain"
    /\ IF queue /= <<>>
       THEN /\ queue' = Tail(queue)
            /\ save_queue(queue')
            /\ runs' = [runs EXCEPT ![r].batch = Append(@, Head(queue))]
       ELSE /\ runs' = [runs EXCEPT ![r].pc = "submit"]
            /\ UNCHANGED <<queue, disk>>
    /\ UNCHANGED <<lastAdded, search_state, results, downloads, reqs, CONFIG, peer, offers, ranked, call, http, limiter>>

\* lines 1150-1156: the total is set and every item is submitted to the pool
BgSubmit(r) ==
    /\ runs[r].pc = "submit"
    /\ IF runs[r].batch /= <<>>
       THEN /\ search_state' = [search_state EXCEPT
                    !.total = Len(runs[r].batch) + search_state.progress]
            /\ save_application_state(search_state')
       ELSE UNCHANGED <<search_state, disk>>
    /\ runs' = [runs EXCEPT ![r].pc = "pool", ![r].pending = runs[r].batch]
    /\ UNCHANGED <<queue, lastAdded, results, downloads, reqs, CONFIG, peer, offers, ranked, call, http, limiter>>

\* lines 965-1026: a pool thread takes the next submitted item
WStart(r, w) ==
    /\ runs[r].pc = "pool"
    /\ runs[r].w[w].pc = "idle"
    /\ \A v \in WorkerIds : v < w => runs[r].w[v].pc /= "idle"
    /\ runs[r].pending /= <<>>
    /\ LET item == Head(runs[r].pending)
       IN  IF ~search_state.active
           THEN runs' = [runs EXCEPT ![r].pending = Tail(@),
                                     ![r].skipped = Append(@, item)]
           ELSE runs' = [runs EXCEPT ![r].pending = Tail(@),
                                     ![r].w[w] = [IdleWorker EXCEPT
                                        !.pc = "search", !.item = item,
                                        !.queries = Queries(item)]]
    /\ UNCHANGED <<queue, lastAdded, search_state, results, downloads, reqs, CONFIG, peer, offers, ranked, call, http, limiter, disk>>

\* lines 1028-1092: one query variant (musicbrainz_metadata is None: the
\* lookup at line 981 calls a method MusicBrainzClient does not have)
WSearch(r, w) ==
    /\ runs[r].w[w].pc = "search"
    /\ runs[r].w[w].queries /= <<>>
    /\ IF ~search_state.active
       THEN runs' = [runs EXCEPT ![r].w[w] = IdleWorker]
       ELSE LET q == Head(runs[r].w[w].queries)
                all_results == ParseFiles(Files(q.query))
                top_results == rank_and_filter_results(all_results, None, CONFIG)
            IN  runs' = [runs EXCEPT ![r].w[w] = [@ EXCEPT
                        !.artist = q.artist,
                        !.queries = Tail(@),
                        !.collected = @ \o top_results]]
    /\ UNCHANGED <<queue, lastAdded, search_state, results, downloads, reqs, CONFIG, peer, offers, ranked, call, http, limiter, disk>>

\* the arguments of one add_track_results call
CallArgs(track_key, artist, title, album, rs, mb) ==
    Some([track_key |-> track_key, artist |-> artist, title |-> title, album |-> album,
          results |-> rs, musicbrainz |-> mb])

\* lines 1094-1139: deduplicate, re-rank, persist. With a best offer that is
\* queued, line 1124 calls add_to_watchlist, which appends the entry and calls
\* save_watchlist while it holds the non-reentrant lock save_watchlist takes
\* (lines 716, 725, 733): the thread blocks there for ever (the watch list
\* starts empty, so no call returns at line 729).
WPersist(r, w) ==
    /\ runs[r].w[w].pc = "search"
    /\ runs[r].w[w].queries = <<>>
    /\ LET me == runs[r].w[w]
           item == me.item
           main_key == MainKey(me.artist, item.title)
           unique_results == FinalResults(me.collected, CONFIG)
       IN  IF unique_results /= <<>>
           THEN /\ results' = add_track_results(results, main_key, item.artist,
                                   item.title, item.album, unique_results, None)
                /\ call' = CallArgs(main_key, item.artist, item.title, item.album,
                                    unique_results, None)
                /\ UNCHANGED search_state
                /\ IF unique_results[1].queue_length > 0
                   THEN runs' = [runs EXCEPT ![r].w[w].pc = "hung"]
                   \* line 1139: search_state['progress'] is read for `+= 1`
                   ELSE runs' = [runs EXCEPT ![r].w[w].pc = "store",
                                             ![r].w[w].tmp = search_state.progress]
           ELSE /\ results' = add_track_results(results, main_key, me.artist,
                                   item.title, item.album, <<>>, None)
                /\ call' = CallArgs(main_key, me.artist, item.title, item.album, <<>>, None)
                /\ search_state' = [search_state EXCEPT
                        !.errors = Append(@, "No results for: " \o main_key)]
                /\ runs' = [runs EXCEPT ![r].w[w].pc = "store",
                                        ![r].w[w].tmp = search_state.progress]
    /\ UNCHANGED <<queue, lastAdded, downloads, reqs, CONFIG, peer, offers, ranked, http, limiter, disk>>

\* lines 1139-1141: the sum is stored back and the state saved
WIncrWrite(r, w) ==
    /\ runs[r].w[w].pc = "store"
    /\ search_state' = [search_state EXCEPT !.progress = runs[r].w[w].tmp + 1]
    /\ save_application_state(search_state')
    /\ runs' = [runs EXCEPT ![r].w[w] = IdleWorker]
    /\ UNCHANGED <<queue, lastAdded, results, downloads, reqs, CONFIG, peer, offers, ranked, call, http, limiter>>

\* lines 1157-1161: every future is done
BgFinish(r) ==
    /\ runs[r].pc = "pool"
    /\ runs[r].pending = <<>>
    /\ \A w \in WorkerIds : runs[r].w[w].pc = "idle"
    /\ search_state' = [search_state EXCEPT !.active = FALSE, !.completed = TRUE]
    /\ save_application_state(search_state')
    /\ runs' = [runs EXCEPT ![r].pc = "done"]
    /\ UNCHANGED <<queue, lastAdded, results, downloads, reqs, CONFIG, peer, offers, ranked, call, http, limiter>>

\* a peer service that has one file for the first item and none for the others
BatchPeer == ("a x" :> <<BaseFile>>)

Init ==
    /\ queue = <<>> /\ lastAdded = 0
    /\ search_state = DefaultState
    /\ runs = [r \in RunIds |-> FreshRun]
    /\ results = EmptyResults
    /\ CONFIG = DEFAULT_CONFIG
    /\ peer = BatchPeer
    /\ downloads = <<>> /\ reqs = <<>>
    /\ offers = <<>> /\ ranked = <<"none">>
    /\ call = <<>> /\ http = <<>> /\ limiter = <<>>
    /\ disk = FreshDisk

Next ==
    \/ start_search
    \/ cancel_search
    \/ \E r \in RunIds : BgAdd(r)
    \/ \E r \in RunIds : BgGuard(r)
    \/ \E r \in RunIds : BgInit(r)
    \/ \E r \in RunIds : BgDrain(r)
    \/ \E r \in RunIds : BgSubmit(r)
    \/ \E r \in RunIds : BgFinish(r)
    \/ \E r \in RunIds, w \in WorkerIds : WStart(r, w)
    \/ \E r \in RunIds, w \in WorkerIds : WSearch(r, w)
    \/ \E r \in RunIds, w \in WorkerIds : WPersist(r, w)
    \/ \E r \in RunIds, w \in WorkerIds : WIncrWrite(r, w)

Spec == Init /\ [][Next]_vars

\* ----------------------------------------------- claims on the batch runs

\* worker w of run r takes an item / sends the next query variant in this step
StartsItem(r, w) == runs[r].w[w].pc = "idle" /\ runs'[r].w[w].pc = "search"
StartsVariant(r, w) ==
    /\ runs[r].w[w].pc = "search" /\ runs'[r].w[w].pc = "search"
    /\ runs[r].w[w].queries /= <<>>
    /\ runs'[r].w[w].queries = Tail(runs[r].w[w].queries)

\* C15: after cancel_search was called during a run's batch, no worker of that
\* run starts an item or a query variant.
C15_NoStartAfterCancel ==
    [][\A r \in RunIds, w \in WorkerIds :
          runs[r].cancelled => ~StartsItem(r, w) /\ ~StartsVariant(r, w)]_vars

\* C16: an item in flight is not given up: its worker goes on with the next
\* variant or persists what it has accumulated (and then counts the item).
C16_InFlightFinishes ==
    [][\A r \in RunIds, w \in WorkerIds :
          runs[r].w[w].pc = "search" => runs'[r].w[w].pc \in {"search", "store"}]_vars

\* C1: when a batch is cancelled, every item of the batch that no worker has
\* started (process_item returned at its first check) is still in the work
\* queue after the batch has ended.
C1_UnstartedStayQueued ==
    \A r \in RunIds :
        runs[r].pc = "done" =>
            \A i \in 1..Len(runs[r].skipped) : runs[r].skipped[i] \in Range(queue)

\* C6: whenever the completed flag is true, the completed-item counter equals
\* the total.
C6_CompletedEqualsTotal ==
    search_state.completed => search_state.progress = search_state.total

\* C7: while a batch is active the completed-item counter never decreases
\* from one state to the next.
C7_ProgressMonotonic ==
    [][(search_state.active /\ search_state'.active)
            => search_state'.progress >= search_state.progress]_vars

\* C8: whenever active is true, the completed-item counter is at most the total.
C8_ProgressAtMostTotal ==
    search_state.active => search_state.progress <= search_state.total

\* ------------------------------------------- one item through process_item
MaxFiles == 2       \* most file entries in one response of the peer service

ItemFiles ==
    { BaseFile,
      [BaseFile EXCEPT !.suffix = ".MP4", !.filename = "f2", !.ratio = 90],
      [BaseFile EXCEPT !.isLocked = TRUE, !.filename = "f3", !.ratio = 90],
      [BaseFile EXCEPT !.size = MaxSizeBytes + 1, !.suffix = ".flac", !.filename = "f4"],
      [BaseFile EXCEPT !.username = "u2", !.suffix = ".flac", !.queueLength = 3] }

QueryTexts(item) == {Queries(item)[i].query : i \in 1..Len(Queries(item))}

\* one request with one item, served by one run with the first pool thread;
\* the peer service answers the item's queries with any file lists
InitItem ==
    /\ queue = <<>> /\ lastAdded = 0
    /\ search_state = DefaultState
    /\ runs = [r \in RunIds |-> FreshRun]
    /\ results = EmptyResults
    /\ CONFIG \in {[DEFAULT_CONFIG EXCEPT !.TOP_RESULTS_COUNT = t] : t \in TopChoices}
    /\ peer \in UNION {[QueryTexts(it) -> SeqsUpTo(ItemFiles, MaxFiles)] : it \in Items}
    /\ downloads = <<>> /\ reqs = <<>>
    /\ offers = <<>> /\ ranked = <<"none">>
    /\ call = <<>> /\ http = <<>> /\ limiter = <<>>
    /\ disk = FreshDisk

ItemStart == StartSearch({<<it>> : it \in Items}, {1})

NextItem ==
    \/ ItemStart
    \/ cancel_search
    \/ BgAdd(1) \/ BgGuard(1) \/ BgInit(1) \/ BgDrain(1) \/ BgSubmit(1) \/ BgFinish(1)
    \/ WStart(1, 1) \/ WSearch(1, 1) \/ WPersist(1, 1) \/ WIncrWrite(1, 1)

SpecItem == InitItem /\ [][NextItem]_vars

\* an offer the hard filters must reject
HardRejected(o) ==
    \/ Lower(o.extension) \in video_extensions
    \/ o.is_locked
    \/ o.size > CONFIG.MAX_FILE_SIZE_MB * 1024 * 1024

\* C9: no offer with a video extension, a locked flag or a size above the
\* configured maximum is in a list rank_and_filter_results returned (the
\* offers a worker has collected) or in the results persisted for a track.
C9_NoHardRejectedOffer ==
    /\ \A r \in RunIds, w \in WorkerIds :
          \A i \in 1..Len(runs[r].w[w].collected) : ~HardRejected(runs[r].w[w].collected[i])
    /\ \A a \in DOMAIN results.albums :
          \A i \in 1..Len(results.albums[a].tracks) :
             \A k \in 1..Len(results.albums[a].tracks[i].results) :
                ~HardRejected(results.albums[a].tracks[i].results[k])

\* a track was persisted with results although the peer service had offered a
\* file that the hard filters reject for one of its queries
C9_Witness ==
    /\ \E a \in DOMAIN results.albums :
          \E i \in 1..Len(results.albums[a].tracks) :
             results.albums[a].tracks[i].results /= <<>>
    /\ \E q \in DOMAIN peer : \E i \in 1..Len(peer[q]) : HardRejected(ResultDict(peer[q][i]))

\* --------------------------------- one item whose variants' offers are merged
\* admissible files: two peers with equal scores, one pair reported twice with
\* different bitrates, one lossless file
MergeFiles ==
    { BaseFile,
      [BaseFile EXCEPT !.username = "u3"],
      [BaseFile EXCEPT !.bitRate = 128, !.size = 2000000],
      [BaseFile EXCEPT !.username = "u2", !.suffix = ".flac"] }

InitMerge ==
    /\ queue = <<>> /\ lastAdded = 0
    /\ search_state = DefaultState
    /\ runs = [r \in RunIds |-> FreshRun]
    /\ results = EmptyResults
    /\ CONFIG \in {[DEFAULT_CONFIG EXCEPT !.TOP_RESULTS_COUNT = t] : t \in TopChoices}
    /\ peer \in UNION {[QueryTexts(it) -> SeqsUpTo(MergeFiles, MaxFiles)] : it \in Items}
    /\ downloads = <<>> /\ reqs = <<>>
    /\ offers = <<>> /\ ranked = <<"none">>
    /\ call = <<>> /\ http = <<>> /\ limiter = <<>>
    /\ disk = FreshDisk

SpecMerge == InitMerge /\ [][NextItem]_vars

\* the result lists the store holds
PersistedLists ==
    UNION {{results.albums[a].tracks[i].results : i \in 1..Len(results.albums[a].tracks)} :
                a \in DOMAIN results.albums}

Pair(o) == <<o.username, o.filename>>

\* the first offer accumulated with this (username, filename) pair
FirstWithPair(collected, pr) ==
    collected[CHOOSE i \in 1..Len(collected) :
                /\ Pair(collected[i]) = pr
                /\ \A j \in 1..(i - 1) : Pair(collected[j]) /= pr]

\* C11: no persisted result list is longer than TOP_RESULTS_COUNT.
C11_AtMostTopN ==
    \A L \in PersistedLists : Len(L) <= CONFIG.TOP_RESULTS_COUNT

\* the worker had accumulated more distinct offers than TOP_RESULTS_COUNT and
\* a list of exactly TOP_RESULTS_COUNT was persisted
C11_Witness ==
    /\ runs[1].w[1].pc = "store"
    /\ Cardinality({Pair(runs[1].w[1].collected[i]) : i \in 1..Len(runs[1].w[1].collected)})
            > CONFIG.TOP_RESULTS_COUNT
    /\ \E L \in PersistedLists : Len(L) = CONFIG.TOP_RESULTS_COUNT

\* C12: no persisted result list holds two offers with the same (username,
\* filename) pair, and each offer persisted by a worker is the first one it
\* accumulated with that pair.
C12_NoRepeatedPair ==
    /\ \A L \in PersistedLists :
          \A i, j \in 1..Len(L) : i /= j => Pair(L[i]) /= Pair(L[j])
    /\ \A r \in RunIds, w \in WorkerIds :
          runs[r].w[w].pc \in {"store", "hung"} =>
             \A L \in PersistedLists : \A k \in 1..Len(L) :
                L[k] = FirstWithPair(runs[r].w[w].collected, Pair(L[k]))

\* the worker had accumulated two different offers with one pair and persisted
\* a list for the track
C12_Witness ==
    /\ runs[1].w[1].pc = "store"
    /\ \E i, j \in 1..Len(runs[1].w[1].collected) :
          /\ i < j
          /\ Pair(runs[1].w[1].collected[i]) = Pair(runs[1].w[1].collected[j])
          /\ runs[1].w[1].collected[i] /= runs[1].w[1].collected[j]
    /\ \E L \in PersistedLists : L /= <<>>

\* order of the peer ids (usernames)
UserRank(u) == CASE u = "u1" -> 1 [] u = "u2" -> 2 [] u = "u3" -> 3 [] OTHER -> 0

\* a may stand before b: higher score, or equal score and shorter queue, or
\* equal score and queue and the smaller peer id
MayPrecede(a, b) ==
    \/ a.quality_score > b.quality_score
    \/ /\ a.quality_score = b.quality_score
       /\ \/ a.queue_length < b.queue_length
          \/ /\ a.queue_length = b.queue_length
             /\ UserRank(a.username) <= UserRank(b.username)

\* C13: every persisted result list is sorted by quality score descending,
\* offers with equal score by queue length ascending and then by username.
C13_SortedWithTieBreak ==
    \A L \in PersistedLists :
        \A i \in 1..(Len(L) - 1) : MayPrecede(L[i], L[i + 1])

\* ------------------------------------------------ the result store alone
\* items searched: one title with and without an album, another title with
\* the album as the canonical metadata spell it and spelt differently
StoreItems ==
    { [artist |-> "a", title |-> "x", album |-> ""],
      [artist |-> "a", title |-> "x", album |-> "al"],
      [artist |-> "a", title |-> "y", album |-> "al"],
      [artist |-> "a", title |-> "y", album |-> "al (deluxe)"] }

StoreLists == {<<>>, <<Scored(BaseOffer, None)>>}

InitStore ==
    /\ results = EmptyResults
    /\ call = <<>>
    /\ queue = <<>> /\ lastAdded = 0
    /\ search_state = <<>> /\ runs = <<>>
    /\ downloads = <<>> /\ reqs = <<>> /\ peer = <<>> /\ CONFIG = <<>>
    /\ offers = <<>> /\ ranked = <<>>
    /\ http = <<>> /\ limiter = <<>> /\ disk = <<>>

\* one call add_track_results(main_key, artist, title, album, results, "",
\* musicbrainz_metadata) as process_item makes it for a searched item
StoreAdd ==
    \E it \in StoreItems, rs \in StoreLists, mbm \in MbChoices :
        /\ results' = add_track_results(results, MainKey(it.artist, it.title),
                            it.artist, it.title, it.album, rs, mbm)
        /\ call' = CallArgs(MainKey(it.artist, it.title), it.artist, it.title, it.album, rs, mbm)
        /\ UNCHANGED <<queue, lastAdded, search_state, runs, downloads, reqs, CONFIG, peer, offers, ranked, http, limiter, disk>>

NextStore == StoreAdd

SpecStore == InitStore /\ [][NextStore]_vars

\* the positions (album key, index) of the track records in the store
TrackPositions ==
    UNION {{<<a, i>> : i \in 1..Len(results.albums[a].tracks)} : a \in DOMAIN results.albums}

TrackAt(pos) == results.albums[pos[1]].tracks[pos[2]]

\* C17: the record of the track the latest add_track_results call stored holds
\* the results and the canonical metadata of that call and nothing of an
\* earlier one.
C17_ReSearchOverwrites ==
    call /= <<>> =>
        \A pos \in TrackPositions :
            LET t == TrackAt(pos)
                c == call[1]
            IN  (/\ t.key = c.track_key /\ t.artist = c.artist
                 /\ t.album = (IF c.album /= "" THEN c.album ELSE "Unknown Album"))
                => t.results = c.results /\ t.musicbrainz = c.musicbrainz

\* C18: no two track records of the store have the same identity key.
C18_OneRecordPerKey ==
    \A p, q \in TrackPositions : p /= q => TrackAt(p).key /= TrackAt(q).key

\* ------------------------------------------- MusicBrainzClient._rate_limit
RATE_LIMIT_DELAY == 1   \* seconds; the clock counts whole seconds
MaxCallers == 2         \* threads calling the client at the same time
MaxClock == 4           \* last second explored
MaxSends == 3           \* most requests sent

Callers == 1..MaxCallers

IdleCaller == [pc |-> "idle", wake |-> 0]

\* a client constructed at second 1 (last_request_time = 0, line 36)
InitLimiter ==
    /\ limiter = [now |-> 1, last_request_time |-> 0, sent |-> <<>>,
                  th |-> [t \in Callers |-> IdleCaller]]
    /\ queue = <<>> /\ lastAdded = 0
    /\ search_state = <<>> /\ runs = <<>> /\ results = <<>>
    /\ downloads = <<>> /\ reqs = <<>> /\ peer = <<>> /\ CONFIG = <<>>
    /\ offers = <<>> /\ ranked = <<>>
    /\ call = <<>> /\ http = <<>> /\ disk = <<>>

\* callers inside _make_request
Calling == Cardinality({t \in Callers : limiter.th[t].pc /= "idle"})

\* lines 44-50: the clock and last_request_time are read and the sleep computed
LimiterRead(t) ==
    /\ limiter.th[t].pc = "idle"
    /\ Len(limiter.sent) + Calling < MaxSends
    /\ LET current_time == limiter.now
           time_since_last_request == current_time - limiter.last_request_time
       IN  limiter' = [limiter EXCEPT !.th[t] =
                IF time_since_last_request < RATE_LIMIT_DELAY
                THEN [pc |-> "sleep",
                      wake |-> current_time + (RATE_LIMIT_DELAY - time_since_last_request)]
                ELSE [pc |-> "stamp", wake |-> 0]]
    /\ UNCHANGED <<queue, lastAdded, search_state, runs, results, downloads, reqs, CONFIG, peer, offers, ranked, call, http, disk>>

\* line 50: time.sleep(sleep_time) returns
LimiterWake(t) ==
    /\ limiter.th[t].pc = "sleep"
    /\ limiter.now >= limiter.th[t].wake
    /\ limiter' = [limiter EXCEPT !.th[t].pc = "stamp"]
    /\ UNCHANGED <<queue, lastAdded, search_state, runs, results, downloads, reqs, CONFIG, peer, offers, ranked, call, http, disk>>

\* lines 52 and 73: last_request_time is set and the request is sent
LimiterSend(t) ==
    /\ limiter.th[t].pc = "stamp"
    /\ limiter' = [limiter EXCEPT !.last_request_time = limiter.now,
                                  !.sent = Append(@, limiter.now),
                                  !.th[t] = IdleCaller]
    /\ UNCHANGED <<queue, lastAdded, search_state, runs, results, downloads, reqs, CONFIG, peer, offers, ranked, call, http, disk>>

\* a second passes
Tick ==
    /\ limiter.now < MaxClock
    /\ limiter' = [limiter EXCEPT !.now = @ + 1]
    /\ UNCHANGED <<queue, lastAdded, search_state, runs, results, downloads, reqs, CONFIG, peer, offers, ranked, call, http, disk>>

NextLimiter ==
    \/ \E t \in Callers : LimiterRead(t)
    \/ \E t \in Callers : LimiterWake(t)
    \/ \E t \in Callers : LimiterSend(t)
    \/ Tick

SpecLimiter == InitLimiter /\ [][NextLimiter]_vars

\* C19: consecutive requests of the client are at least RATE_LIMIT_DELAY apart.
C19_RequestsSpaced ==
    \A k \in 1..(Len(limiter.sent) - 1) :
        limiter.sent[k + 1] - limiter.sent[k] >= RATE_LIMIT_DELAY

\* ------------------------------------------- SlskdClient._request_with_retry
max_retries == 3
backoff == 1

\* responses of the peer search service; 0 stands for a connection error
Statuses == {200, 429, 500, 0}

\* variant with waits that grow by one second
WaitTime_linear(i) == backoff * (i + 1)

\* line 625: wait_time = backoff * (2 ** i)
WaitTime(i) == backoff * (2 ^ i)

\* one request (_request_with_retry call) before its first attempt; last is
\* the status of the latest attempt (-1 before the first)
NewRequest(kind) ==
    [kind |-> kind, i |-> 0, tries |-> 0, limited |-> 0, waits |-> <<>>, outcome |-> "pending",
     last |-> -1]

\* one pass of the loop at line 618 with the response status
Attempt(rq, status) ==
    LET sent == [rq EXCEPT !.tries = @ + 1, !.last = status,
                           !.limited = IF status = 429 THEN @ + 1 ELSE @]
    IN  IF status = 429
        THEN IF rq.i = max_retries
             THEN [sent EXCEPT !.outcome = "raised"]
             ELSE [sent EXCEPT !.waits = Append(@, WaitTime(rq.i)), !.i = @ + 1]
        ELSE IF status = 200 THEN [sent EXCEPT !.outcome = "returned"]
        ELSE [sent EXCEPT !.outcome = "raised"]

\* the query texts of an item's variants
QuerySeq(item) == [k \in 1..Len(Queries(item)) |-> Queries(item)[k].query]

\* the 'files' of a results response explored
RetryAnswers == {<<>>, <<BaseFile>>}

\* process_item's loop over the variants of one item, before the first one:
\* the item is the only one of an active batch; artist is the value the loop
\* variable of line 996 is left with; collected is item['collected_results']
InitRetry ==
    /\ http \in {[item |-> it, artist |-> SplitArtists(it.artist)[Len(SplitArtists(it.artist))],
                  todo |-> QuerySeq(it), phase |-> "idle", rq |-> NewRequest("none"),
                  requests |-> <<>>, done |-> <<>>, collected |-> <<>>] : it \in Items}
    /\ search_state = [DefaultState EXCEPT !.active = TRUE, !.total = 1]
    /\ results = EmptyResults
    /\ CONFIG = DEFAULT_CONFIG
    /\ queue = <<>> /\ lastAdded = 0
    /\ runs = <<>>
    /\ downloads = <<>> /\ reqs = <<>> /\ peer = <<>>
    /\ offers = <<>> /\ ranked = <<>>
    /\ call = <<>> /\ limiter = <<>> /\ disk = <<>>

\* variant in which an abandoned variant ends the loop over the queries
EndVariant_abort(h, rq, outcome, top) ==
    [h EXCEPT !.phase = "idle", !.rq = NewRequest("none"), !.requests = <<>>,
              !.todo = IF outcome = "abandoned" THEN <<>> ELSE Tail(@),
              !.collected = @ \o top,
              !.done = Append(@, [query |-> Head(h.todo), outcome |-> outcome,
                                  requests |-> Append(h.requests, rq), top |-> top])]

\* the variant ends: its requests are logged and the offers it ranked (none
\* unless its results were fetched) extend the collected ones (line 1085);
\* the loop goes to the next query
EndVariant(h, rq, outcome, top) ==
    [h EXCEPT !.phase = "idle", !.rq = NewRequest("none"), !.requests = <<>>,
              !.todo = Tail(@),
              !.collected = @ \o top,
              !.done = Append(@, [query |-> Head(h.todo), outcome |-> outcome,
                                  requests |-> Append(h.requests, rq), top |-> top])]

\* lines 1028-1040: the next variant calls client.search
VariantStart ==
    /\ http.phase = "idle"
    /\ http.todo /= <<>>
    /\ http' = [http EXCEPT !.phase = "search", !.rq = NewRequest("search")]
    /\ UNCHANGED <<queue, lastAdded, search_state, runs, results, downloads, reqs, CONFIG, peer, offers, ranked, call, limiter, disk>>

\* lines 618-640: one attempt of the current request. A request that raises
\* ends the variant at line 1091; a search response without an id ends it at
\* line 1088; the results request follows a search response with an id
RequestAttempt ==
    /\ http.phase \in {"search", "results"}
    /\ \E status \in Statuses, has_id \in BOOLEAN, files \in RetryAnswers :
          LET rq == Attempt(http.rq, status)
              top_results == rank_and_filter_results(ParseFiles(files), None, CONFIG)
          IN  http' =
                IF rq.outcome = "pending" THEN [http EXCEPT !.rq = rq]
                ELSE IF rq.outcome = "raised" THEN EndVariant(http, rq, "abandoned", <<>>)
                ELSE IF http.phase = "results"
                     THEN EndVariant(http, rq, "fetched", top_results)
                ELSE IF ~has_id THEN EndVariant(http, rq, "no id", <<>>)
                ELSE [http EXCEPT !.phase = "results", !.rq = NewRequest("results"),
                                  !.requests = Append(@, rq)]
    /\ UNCHANGED <<queue, lastAdded, search_state, runs, results, downloads, reqs, CONFIG, peer, offers, ranked, call, limiter, disk>>

\* lines 1094-1141 after the last variant: deduplicate, re-rank, persist and
\* count (one pool thread; add_to_watchlist blocks the thread for a best
\* offer that is queued)
ItemEnd ==
    /\ http.phase = "idle"
    /\ http.todo = <<>>
    /\ LET item == http.item
           main_key == MainKey(http.artist, item.title)
           unique_results == FinalResults(http.collected, CONFIG)
       IN  IF unique_results /= <<>>
           THEN /\ results' = add_track_results(results, main_key, item.artist,
                                   item.title, item.album, unique_results, None)
                /\ call' = CallArgs(main_key, item.artist, item.title, item.album,
                                    unique_results, None)
                /\ IF unique_results[1].queue_length > 0
                   THEN /\ http' = [http EXCEPT !.phase = "hung"]
                        /\ UNCHANGED search_state
                   ELSE /\ http' = [http EXCEPT !.phase = "persisted"]
                        /\ search_state' = [search_state EXCEPT !.progress = @ + 1]
           ELSE /\ results' = add_track_results(results, main_key, http.artist,
                                   item.title, item.album, <<>>, None)
                /\ call' = CallArgs(main_key, http.artist, item.title, item.album, <<>>, None)
                /\ search_state' = [search_state EXCEPT
                        !.errors = Append(@, "No results for: " \o main_key),
                        !.progress = @ + 1]
                /\ http' = [http EXCEPT !.phase = "persisted"]
    /\ UNCHANGED <<queue, lastAdded, runs, downloads, reqs, CONFIG, peer, offers, ranked, limiter, disk>>

NextRetry == VariantStart \/ RequestAttempt \/ ItemEnd

SpecRetry == InitRetry /\ [][NextRetry]_vars

\* every request made so far: the logged ones and the current one
AllRequests ==
    {http.rq} \cup Range(http.requests)
        \cup UNION {Range(http.done[k].requests) : k \in 1..Len(http.done)}

\* C14 as stated: a variant whose requests keep being rate-limited is attempted
\* at most 3 times.
C14_AtMostThreeAttempts ==
    \A rq \in AllRequests : rq.limited = rq.tries => rq.tries <= 3

\* C14 amended: each request of a variant is attempted at most 4 times (the
\* first attempt and 3 retries), the waits between the attempts of one request
\* are 1, 2 and 4 seconds, and a request whose 4 attempts were all rate-limited
\* raises, which abandons the variant.
C14_AtMostFourAttempts ==
    /\ \A rq \in AllRequests :
          /\ rq.tries <= 4
          /\ rq.waits = SubSeq(<<1, 2, 4>>, 1, Len(rq.waits))
          /\ rq.limited = 4 => rq.outcome = "raised"
    /\ \A k \in 1..Len(http.done) :
          LET v == http.done[k]
          IN  v.requests[Len(v.requests)].outcome = "raised" => v.outcome = "abandoned"

\* a variant was abandoned after 4 rate-limited attempts and waits of 1, 2, 4
C14_Witness ==
    \E k \in 1..Len(http.done) :
        LET v == http.done[k]
            rq == v.requests[Len(v.requests)]
        IN  /\ v.outcome = "abandoned"
            /\ rq.tries = 4 /\ rq.limited = 4
            /\ rq.waits = <<1, 2, 4>>

\* ---------------------------------------------------------- ISRCTracker
\* a null 'isrc' (Python None); "" is the empty string
NullIsrc == "<None>"
\* `if isrc`: neither None nor empty
Truthy(isrc) == isrc /= NullIsrc /\ isrc /= ""

\* variant that stops at the oldest record
is_duplicate_first_record(dl, isrc) ==
    IF ~Truthy(isrc) THEN FALSE
    ELSE dl /= <<>> /\ dl[1].isrc = isrc

is_duplicate(dl, isrc) ==
    IF ~Truthy(isrc) THEN FALSE
    ELSE \E i \in 1..Len(dl) : dl[i].isrc = isrc

record_download(dl, isrc, artist, title, album, username, filename) ==
    Append(dl, [isrc |-> isrc, artist |-> artist, title |-> title, album |-> album,
                username |-> username, filename |-> filename])

\* ------------------------------------------------------ download routes
MaxReqs == 2        \* web threads serving download requests at the same time
MaxDownloads == 2   \* longest download ledger explored
MaxKeys == 2        \* longest track_keys list of one bulk_download request

ReqIds == 1..MaxReqs

\* a results file written by the versions that filled the 'tracks' map:
\* the only records get_track_results finds
LegacyTrack(artist, title, rs, mb) ==
    [artist |-> artist, title |-> title, album |-> "Unknown Album",
     result_count |-> Len(rs), reviewed |-> FALSE, results |-> rs,
     key |-> MainKey(artist, title), musicbrainz |-> mb]

LegacyTracks ==
    ("a - x" :> LegacyTrack("a", "x", <<BaseOffer>>, Some([MbMeta EXCEPT !.isrc = "A"])))
    @@ ("a - y" :> LegacyTrack("a", "y", <<BaseOffer>>, Some([MbMeta EXCEPT !.isrc = "B"])))
    @@ ("d - v" :> LegacyTrack("d", "v", <<BaseOffer>>, Some([MbMeta EXCEPT !.isrc = ""])))

\* the track keys requests name: the legacy tracks and one track nobody stored
TrackKeys == (DOMAIN LegacyTracks) \cup {"a - w"}

\* track_key.split(' - ', 1)
KeyParts(track_key) ==
    CASE track_key = "a - x" -> <<"a", "x">>
      [] track_key = "a - y" -> <<"a", "y">>
      [] track_key = "a - w" -> <<"a", "w">>
      [] track_key = "d - v" -> <<"d", "v">>
      [] OTHER -> <<track_key, "">>

FreeReq == [pc |-> "free", keys |-> <<>>, isrc |-> NullIsrc, status |-> 0]

\* records the ledger may still receive from the requests in flight
InFlight == LET RECURSIVE Sum(_)
                Sum(S) == IF S = {} THEN 0
                          ELSE LET q == CHOOSE q \in S : TRUE
                               IN  Len(reqs[q].keys) + Sum(S \ {q})
            IN  Sum(ReqIds)

\* musicbrainz_data.get('isrc') if musicbrainz_data else None
IsrcOf(track_data) ==
    IF track_data.musicbrainz /= None THEN track_data.musicbrainz[1].isrc ELSE NullIsrc

\* a request arrives: POST /download/<track_key> or POST /bulk_download
DlBegin(q) ==
    \E keys \in SeqsUpTo(TrackKeys, MaxKeys) :
        /\ reqs[q].pc = "free"
        \* web threads are interchangeable: the lowest free one serves the request
        /\ \A p \in ReqIds : p < q => reqs[p].pc /= "free"
        /\ keys /= <<>>
        /\ Len(downloads) + InFlight + Len(keys) <= MaxDownloads
        /\ reqs' = [reqs EXCEPT ![q] = [FreeReq EXCEPT !.pc = "check", !.keys = keys]]
        /\ UNCHANGED <<queue, lastAdded, search_state, runs, results, downloads, CONFIG, peer, offers, ranked, call, http, limiter, disk>>

\* download_track lines 1507-1532 / bulk_download lines 1597-1627 for one key:
\* the lookup and the duplicate check (the 409 branch calls
\* isrc_tracker.get_info_by_isrc, which ISRCTracker does not have: it ends in
\* the except branch; either way nothing is downloaded)
DlCheck(q) ==
    /\ reqs[q].pc = "check"
    /\ LET track_key == Head(reqs[q].keys)
           track_data == get_track_results(results, track_key)
       IN  IF track_data = None \/ track_data[1].results = <<>>
           THEN reqs' = [reqs EXCEPT ![q] = [@ EXCEPT !.keys = Tail(@), !.status = 404,
                            !.pc = IF Tail(reqs[q].keys) = <<>> THEN "free" ELSE "check"]]
           ELSE IF is_duplicate(downloads, IsrcOf(track_data[1]))
           THEN reqs' = [reqs EXCEPT ![q] = [@ EXCEPT !.keys = Tail(@), !.status = 500,
                            !.pc = IF Tail(reqs[q].keys) = <<>> THEN "free" ELSE "check"]]
           ELSE reqs' = [reqs EXCEPT ![q] = [@ EXCEPT !.pc = "download",
                            !.isrc = IsrcOf(track_data[1])]]
    /\ UNCHANGED <<queue, lastAdded, search_state, runs, results, downloads, CONFIG, peer, offers, ranked, call, http, limiter, disk>>

\* download_track lines 1541-1565 / bulk_download lines 1630-1650: the
\* transfer is requested and, when the service accepts it, recorded
DlDownload(q) ==
    /\ reqs[q].pc = "download"
    /\ LET track_key == Head(reqs[q].keys)
           track_data == get_track_results(results, track_key)[1]
           top_result == track_data.results[1]
       IN  \E accepted \in BOOLEAN :
             /\ downloads' = IF accepted
                    THEN record_download(downloads, reqs[q].isrc, track_data.artist,
                            track_data.title, track_data.album,
                            top_result.username, top_result.filename)
                    ELSE downloads
             /\ reqs' = [reqs EXCEPT ![q] = [@ EXCEPT !.keys = Tail(@),
                            !.status = IF accepted THEN 200 ELSE 500,
                            !.pc = IF Tail(reqs[q].keys) = <<>> THEN "free" ELSE "check"]]
    /\ UNCHANGED <<queue, lastAdded, search_state, runs, results, CONFIG, peer, offers, ranked, call, http, limiter, disk>>

\* POST /download/specific, lines 1301-1355 (the duplicate check at line 1319
\* only passes; record_download gets filename as its fourth positional
\* argument, album)
download_specific ==
    \E track_key \in TrackKeys, username \in {"u1"}, filename \in {"f1"}, accepted \in BOOLEAN :
        /\ Len(downloads) + InFlight < MaxDownloads
        /\ LET track_data == get_track_results(results, track_key)
               isrc == IF track_data /= None THEN IsrcOf(track_data[1]) ELSE NullIsrc
               parts == KeyParts(track_key)
           IN  downloads' = IF accepted
                    THEN record_download(downloads, isrc, parts[1], parts[2], filename,
                                         username, "")
                    ELSE downloads
        /\ UNCHANGED <<queue, lastAdded, search_state, runs, results, reqs, CONFIG, peer, offers, ranked, call, http, limiter, disk>>

InitLedger ==
    /\ results = [albums |-> EmptyMap, tracks |-> LegacyTracks]
    /\ downloads = <<>>
    /\ reqs = [q \in ReqIds |-> FreeReq]
    /\ CONFIG = DEFAULT_CONFIG
    /\ queue = <<>> /\ lastAdded = 0
    /\ search_state = <<>> /\ runs = <<>> /\ peer = <<>>
    /\ offers = <<>> /\ ranked = <<>>
    /\ call = <<>> /\ http = <<>> /\ limiter = <<>> /\ disk = <<>>

NextLedger ==
    \/ \E q \in ReqIds : DlBegin(q)
    \/ \E q \in ReqIds : DlCheck(q)
    \/ \E q \in ReqIds : DlDownload(q)
    \/ download_specific

\* the download ledger under the download routes
SpecLedger == InitLedger /\ [][NextLedger]_vars

\* C2: every record add_track_results has stored is what get_track_results
\* returns for its key.
C2_StoredIsRetrievable ==
    \A a \in DOMAIN results.albums :
        \A i \in 1..Len(results.albums[a].tracks) :
            LET t == results.albums[a].tracks[i]
            IN  get_track_results(results, t.key) = Some(t)

\* C4: the download ledger holds at most one record for each recording id
\* that is present (neither null nor empty).
C4_OneRecordPerIsrc ==
    \A i, j \in 1..Len(downloads) :
        (i /= j /\ Truthy(downloads[i].isrc)) => downloads[i].isrc /= downloads[j].isrc

\* C5 as stated: is_duplicate(None) is false, and every non-null id that was
\* recorded is reported as a duplicate.
C5_RecordedNonNullIsDuplicate ==
    /\ ~is_duplicate(downloads, NullIsrc)
    /\ \A i \in 1..Len(downloads) :
            downloads[i].isrc /= NullIsrc => is_duplicate(downloads, downloads[i].isrc)

\* C5 amended: is_duplicate(None) is false, and every id that was recorded and
\* is neither null nor the empty string is reported as a duplicate in every
\* later ledger state.
C5_RecordedIsDuplicate ==
    /\ ~is_duplicate(downloads, NullIsrc)
    /\ \A i \in 1..Len(downloads) :
            Truthy(downloads[i].isrc) => is_duplicate(downloads, downloads[i].isrc)

\* an id was recorded and another download was recorded after it
C5_Witness ==
    /\ Len(downloads) >= 2
    /\ Truthy(downloads[1].isrc)
    /\ downloads[2].isrc /= downloads[1].isrc

\* --------------------------------------------- specification of the ranking
MaxOffers == 2      \* longest offer list ranked

InitRank ==
    /\ offers \in SeqsUpTo(OfferUniverse, MaxOffers) \X MbChoices
    /\ CONFIG \in {[DEFAULT_CONFIG EXCEPT !.TOP_RESULTS_COUNT = t] : t \in TopChoices}
    /\ ranked = <<"none">>
    /\ queue = <<>> /\ lastAdded = 0
    /\ search_state = <<>> /\ runs = <<>> /\ results = <<>>
    /\ downloads = <<>> /\ reqs = <<>> /\ peer = <<>>
    /\ call = <<>> /\ http = <<>> /\ limiter = <<>> /\ disk = <<>>

\* one call rank_and_filter_results(results, musicbrainz_metadata)
Rank ==
    /\ ranked = <<"none">>
    /\ ranked' = <<"ranked", rank_and_filter_results(offers[1], offers[2], CONFIG)>>
    /\ UNCHANGED <<queue, lastAdded, search_state, runs, results, downloads, reqs, CONFIG, peer, offers, call, http, limiter, disk>>

NextRank == Rank

SpecRank == InitRank /\ [][NextRank]_vars

\* offers that differ at most in the file name and what the name-relevance
\* term reads from it
SameButName(a, b) ==
    \A f \in (DOMAIN a) \ {"filename", "bl_hits", "title_in_name", "ratio", "quality_score"} :
        a[f] = b[f]

\* C20: ranked offers whose file names hold blacklisted words the title lacks,
\* and that differ in nothing but the name, have the same score: one fixed
\* penalty, whatever the number of words, and no substring or similarity bonus.
C20_SingleBlacklistPenalty ==
    ranked[1] = "ranked" =>
        \A i, j \in 1..Len(ranked[2]) :
            (/\ ranked[2][i].bl_hits > 0 /\ ranked[2][j].bl_hits > 0
             /\ SameButName(ranked[2][i], ranked[2][j]))
            => ranked[2][i].quality_score = ranked[2][j].quality_score

\* the offer, without its score, is in the returned list
InRanked(o) ==
    \E k \in 1..Len(ranked[2]) : [f \in DOMAIN o |-> ranked[2][k][f]] = o

\* the ranked list holds exactly two offers, at positions i and j, that differ
\* only in queue length, lo at i and hi at j, and are otherwise admissible
QueuePair(i, j, lo, hi) ==
    /\ Len(offers[1]) = 2 /\ i /= j
    /\ offers[1][i].queue_length = lo /\ offers[1][j].queue_length = hi
    /\ [offers[1][j] EXCEPT !.queue_length = lo] = offers[1][i]
    /\ ~HardRejected(offers[1][i])

StoredEmpty(res, key) ==
    \E a \in DOMAIN res.albums :
        \E i \in 1..Len(res.albums[a].tracks) :
            /\ res.albums[a].tracks[i].key = key
            /\ res.albums[a].tracks[i].results = <<>>

\* the worker has all its variants' answers and they hold no admissible offer
ZeroOffers(r, w) ==
    /\ runs[r].w[w].queries = <<>>
    /\ FinalResults(runs[r].w[w].collected, CONFIG) = <<>>

\* C21: a worker that reaches the end of an item with zero offers persists
\* the item with an empty results list and appends one 'No results' entry for
\* it to the errors, and its increment makes the completed counter one larger.
C21_ZeroOffersPersistedAndCounted ==
    [][\A r \in RunIds, w \in WorkerIds :
        LET me == runs[r].w[w]
            key == MainKey(me.artist, me.item.title)
        IN  /\ (me.pc = "search" /\ runs'[r].w[w].pc = "store" /\ ZeroOffers(r, w)) =>
                  /\ StoredEmpty(results', key)
                  /\ search_state'.errors =
                        Append(search_state.errors, "No results for: " \o key)
            /\ (me.pc = "store" /\ runs'[r].w[w].pc = "idle" /\ ZeroOffers(r, w)) =>
                  search_state'.progress = search_state.progress + 1]_vars

\* an item without offers went through a worker to the end
C21_Witness ==
    /\ call /= <<>> /\ call[1].results = <<>>
    /\ StoredEmpty(results, call[1].track_key)
    /\ search_state.errors = <<"No results for: " \o call[1].track_key>>
    /\ search_state.progress = 1
    /\ \A r \in RunIds, w \in WorkerIds : runs[r].w[w].pc = "idle"

\* --------------------------------------------------- the start of a batch
\* C22: a batch starts from a reset progress state: when a run initialises the
\* state the completed counter is 0 and the errors are empty, whatever an
\* earlier batch left, and the total it sets is the number of items of its batch.
C22_ProgressResetAtBatchStart ==
    [][\A r \in RunIds :
        /\ (runs[r].pc = "init" /\ runs'[r].pc = "drain") =>
              /\ search_state'.progress = 0
              /\ search_state'.errors = <<>>
        /\ (runs[r].pc = "submit" /\ runs'[r].pc = "pool" /\ runs[r].batch /= <<>>) =>
              search_state'.total = Len(runs[r].batch)]_vars

\* ------------------------------------------------- the album of a stored track
\* the album groups that hold a track with this key
GroupsOf(res, key) ==
    {a \in DOMAIN res.albums :
        \E i \in 1..Len(res.albums[a].tracks) : res.albums[a].tracks[i].key = key}

\* C23: a track stored with a caller-supplied album and with canonical
\* metadata that name an album is in the album group named after the
\* canonical album.
C23_GroupedByCanonicalAlbum ==
    (call /= <<>> /\ call[1].album /= "" /\ call[1].musicbrainz /= None
        /\ call[1].musicbrainz[1].album /= "")
    => \E a \in GroupsOf(results, call[1].track_key) :
            results.albums[a].name = call[1].musicbrainz[1].album

\* ------------------------------------------------ the classes of failures
\* a failure worth another attempt: rate limited (429), or no response at all
\* (connection error, timeout: 0)
Retryable(status) == status \in {429, 0}

\* C24: a request whose attempt was rate-limited or met a transient network
\* error is attempted again until the attempts are used up, and a request that
\* met a permanent error (500) is raised at once.
C24_TransientErrorsRetried ==
    \A rq \in AllRequests :
        /\ (rq.outcome = "raised" /\ Retryable(rq.last)) => rq.tries = max_retries + 1
        /\ rq.last = 500 => rq.outcome = "raised"

\* ------------------------------------------------- the queue and its file
\* C25: after any sequence of add_items, get_next and clear calls (each write
\* succeeding) the queue file holds the in-memory queue, so that a restart,
\* which reads the file back, has exactly the items not yet dequeued, in order.
C25_FileEqualsQueue == disk.queue = queue

\* items were added, one was dequeued and the rest read back after a restart
C25_Witness ==
    /\ disk.boots = 1
    /\ queue = <<ItemSeq[2]>>
    /\ disk.queue = queue

\* ------------------------------------------------ a batch run to its end
\* the answers of the peer service explored for the run's end: nothing, one
\* file of a peer with a free slot, one file of a peer with a queue
LiveAnswers ==
    { <<>>, <<BaseFile>>,
      <<[BaseFile EXCEPT !.username = "u2", !.suffix = ".flac", !.queueLength = 3]>> }

InitLive ==
    /\ queue = <<>> /\ lastAdded = 0
    /\ search_state = DefaultState
    /\ runs = [r \in RunIds |-> FreshRun]
    /\ results = EmptyResults
    /\ CONFIG = DEFAULT_CONFIG
    /\ peer \in UNION {[QueryTexts(it) -> LiveAnswers] : it \in Items}
    /\ downloads = <<>> /\ reqs = <<>>
    /\ offers = <<>> /\ ranked = <<"none">>
    /\ call = <<>> /\ http = <<>> /\ limiter = <<>>
    /\ disk = FreshDisk

\* the steps of the run's thread and of its pool thread
ThreadSteps ==
    \/ BgAdd(1) \/ BgGuard(1) \/ BgInit(1) \/ BgDrain(1) \/ BgSubmit(1) \/ BgFinish(1)
    \/ WStart(1, 1) \/ WSearch(1, 1) \/ WPersist(1, 1) \/ WIncrWrite(1, 1)

\* one request served by one run; a thread that can take a step takes it
\* eventually (the threads are scheduled by the operating system and none of
\* their steps waits on the web requests)
SpecLive == InitLive /\ [][NextItem]_vars /\ WF_vars(ThreadSteps)

\* C26: every batch that was started terminates: its run reaches the end of
\* background_search_task, where active is set to false and completed to true.
C26_BatchTerminates ==
    \A r \in RunIds : (runs[r].pc = "init") ~> (runs[r].pc = "done")

\* ------------------------------------------------- one batch run at a time
\* the runs that are past the 'already active' check of line 935 and have not
\* reached the end of background_search_task
PastGuard == {r \in RunIds : runs[r].pc \in {"init"} \cup BatchPcs}

\* C27: at most one batch run executes at any time: there are never two
\* invocations of background_search_task past the 'already active' check.
C27_AtMostOneRun == Cardinality(PastGuard) <= 1

\* ------------------------------------------------- the count of a batch
\* C28: no increment of the completed counter is lost: when the only batch
\* run so far has finished without a cancellation, the counter, 0 before the
\* batch, equals the number of items of the batch.
C28_NoLostIncrement ==
    (/\ runs[1].pc = "done" /\ ~runs[1].cancelled
     /\ \A r \in RunIds \ {1} : runs[r].pc = "unused")
    => search_state.progress = Len(runs[1].batch)

\* ------------------------------------------------ the active flag at a restart
\* the process ends (its threads with it) and is started again: the queue is
\* read from QUEUE_FILE (line 762) and search_state from STATE_FILE (line 770);
\* the result store was saved by every add_track_results call
Restart ==
    /\ disk.boots < MaxRestarts
    /\ load_queue
    /\ search_state' = load_application_state
    /\ runs' = [r \in RunIds |-> FreshRun]
    /\ call' = <<>>
    /\ disk' = [disk EXCEPT !.boots = @ + 1]
    /\ UNCHANGED <<results, downloads, reqs, CONFIG, peer, offers, ranked, http, limiter>>

NextRestart == NextItem \/ Restart

\* one-item requests, each served by one run with one pool thread, in a
\* process that may be restarted
SpecRestart == Init /\ [][NextRestart]_vars

\* C29: the active flag is never stuck: whenever it is true a batch run is
\* executing (past the guard that set it, before the end that clears it).
C29_ActiveHasRun == search_state.active => PastGuard /= {}

\* ------------------------------------------ items added during a batch
\* C30: the items a background_search_task invocation put into the queue
\* before it returned at the 'already active' check are processed by the
\* batch that was active: once that batch has set completed to true none of
\* them is still in the queue (no batch having been cancelled).
C30_AddedItemsProcessed ==
    \A r \in RunIds :
        (/\ runs[r].pc = "returned" /\ search_state.completed /\ PastGuard = {}
         /\ \A q \in RunIds : ~runs[q].cancelled)
        => \A i \in 1..Len(runs[r].items) : runs[r].items[i] \notin Range(queue)

\* ------------------------------------------------ delete with re-search
MaxDeletes == 2     \* requests to the delete route explored

\* the keys the delete route is called with
DeleteKeys == {"a - x"}

\* artist and title of line 1264: track_key.split(' - ', 1)
ParseKey(track_key) ==
    CASE track_key = "a - x" -> [artist |-> "a", title |-> "x"]
      [] OTHER -> [artist |-> track_key, title |-> ""]

\* the store after the item a/x was searched and persisted with one offer
SearchedStore ==
    add_track_results(EmptyResults, "a - x", "a", "x", "", <<Scored(BaseOffer, None)>>, None)

InitDelete ==
    /\ queue = <<>> /\ lastAdded = 0
    /\ search_state = DefaultState
    /\ runs = [r \in RunIds |-> FreshRun]
    /\ results = SearchedStore
    /\ CONFIG = DEFAULT_CONFIG
    /\ peer = BatchPeer
    /\ downloads = <<>> /\ reqs = <<>>
    /\ offers = <<>> /\ ranked = <<"none">>
    /\ call = <<>> /\ http = <<>> /\ limiter = <<>>
    /\ disk = FreshDisk

\* SearchManager has a method remove_track (line 1272 calls it; the class
\* defines delete_track, line 461, and no remove_track)
has_remove_track == FALSE

\* POST /track/<track_key>/delete, lines 1248-1298. The call at line 1272
\* raises AttributeError, which the handler at line 1296 answers with 500:
\* nothing is deleted and nothing is enqueued. Were the method there, the
\* record would go, the item be enqueued, and with an idle orchestrator
\* active be set before background_search_task() is spawned without items.
DeleteTrack ==
    \E k \in DeleteKeys, research \in BOOLEAN :
        LET track_data == get_track_results(results, k)
            parsed == ParseKey(k)
            item == [artist |-> parsed.artist, title |-> parsed.title,
                     album |-> IF track_data /= None THEN track_data[1].album ELSE ""]
            served(status) ==
                Append(reqs, [track_key |-> k, research |-> research,
                              idle |-> ~search_state.active, status |-> status])
        IN  /\ Len(reqs) < MaxDeletes
            /\ IF ~has_remove_track
               THEN /\ reqs' = served(500)
                    /\ UNCHANGED <<queue, lastAdded, search_state, runs, results, disk>>
               ELSE /\ reqs' = served(200)
                    /\ results' = [results EXCEPT !.tracks =
                            [t \in DOMAIN results.tracks \ {k} |-> results.tracks[t]]]
                    /\ IF research /\ item.artist /= ""
                       THEN /\ add_items(<<item>>)
                            /\ IF ~search_state.active
                               THEN /\ search_state' = [search_state EXCEPT
                                            !.active = TRUE, !.completed = FALSE]
                                    /\ \E r \in RunIds :
                                          /\ runs[r].pc = "unused"
                                          /\ runs' = [runs EXCEPT ![r].pc = "guard"]
                               ELSE UNCHANGED <<search_state, runs>>
                       ELSE UNCHANGED <<queue, lastAdded, search_state, runs, disk>>
            /\ UNCHANGED <<downloads, CONFIG, peer, offers, ranked, call, http, limiter>>

NextDelete == NextItem \/ DeleteTrack

\* the delete route beside one-item searches; a thread that can take a step
\* takes it eventually
SpecDelete == InitDelete /\ [][NextDelete]_vars /\ WF_vars(ThreadSteps)

\* a delete with re-search of this key was served while the orchestrator was idle
DeleteResearchServed(k) ==
    \E i \in 1..Len(reqs) : reqs[i].track_key = k /\ reqs[i].research /\ reqs[i].idle

\* a batch run has searched the item of this key to the end and the store
\* holds its record
Researched(k) ==
    /\ \E r \in RunIds :
          /\ runs[r].pc = "done"
          /\ \E i \in 1..Len(runs[r].batch) :
                MainKey(runs[r].batch[i].artist, runs[r].batch[i].title) = k
    /\ GroupsOf(results, k) /= {}

\* C31: a delete with re-search served while the orchestrator is idle is
\* followed by a search of the item that persists it again, after which the
\* orchestrator is idle.
C31_DeleteResearchCompletes ==
    \A k \in DeleteKeys :
        DeleteResearchServed(k) ~> (Researched(k) /\ ~search_state.active)

\* ------------------------------------------------ the key of a persisted item
\* line 1383: the key start_search looks an item up with, built from the
\* caller-supplied artist string
IdentityKey(item) == MainKey(item.artist, item.title)

\* C32: a worker persists every item under the item's identity key, built
\* from the full caller-supplied artist string and the title.
C32_PersistedUnderIdentityKey ==
    [][\A r \in RunIds, w \in WorkerIds :
        (runs[r].w[w].pc = "search" /\ runs'[r].w[w].pc \in {"store", "hung"})
        => call'[1].track_key = IdentityKey(runs[r].w[w].item)]_vars

\* ------------------------------------------------ a variant that fails
RECURSIVE TopsOf(_)
\* the offers of the variants run so far, in the order of the variants
TopsOf(done) ==
    IF done = <<>> THEN <<>>
    ELSE TopsOf(SubSeq(done, 1, Len(done) - 1)) \o done[Len(done)].top

\* a variant of the item was abandoned because a request of it was rate
\* limited at every attempt, the retries included
SomeAbandoned ==
    \E k \in 1..Len(http.done) :
        LET v == http.done[k]
        IN  /\ v.outcome = "abandoned"
            /\ v.requests[Len(v.requests)].limited = max_retries + 1

\* C33: a variant that raises does not abort its item: the offers collected
\* are at any time those of all variants run so far, and when the item has
\* ended every variant of it was run, the item is stored with the best of
\* the collected offers and it is counted.
C33_FailedVariantDoesNotAbort ==
    /\ http.collected = TopsOf(http.done)
    /\ http.phase = "persisted" =>
          /\ Len(http.done) = Len(Queries(http.item))
          /\ \E a \in GroupsOf(results, call[1].track_key) :
                \E i \in 1..Len(results.albums[a].tracks) :
                    /\ results.albums[a].tracks[i].key = call[1].track_key
                    /\ results.albums[a].tracks[i].results
                            = FinalResults(TopsOf(http.done), CONFIG)
          /\ search_state.progress = 1

\* the first variant of an item was abandoned, the second brought an offer,
\* and the item was stored with that offer and counted
C33_Witness ==
    /\ http.phase = "persisted"
    /\ Len(http.done) = 2
    /\ http.done[1].outcome = "abandoned"
    /\ http.done[2].top /= <<>>
    /\ call[1].results /= <<>>
    /\ search_state.progress = 1

\* C34: when a variant of an item was abandoned, the errors of the progress
\* state hold an entry once the item has ended, whether or not other
\* variants brought offers.
C34_AbandonedVariantRecorded ==
    (http.phase = "persisted" /\ SomeAbandoned) => search_state.errors /= <<>>

\* ------------------------------------------ enqueue while a drain is in flight
MaxEnqueues == 1    \* add_items calls made while the drain loop runs

\* the log of the add_items calls: the list passed and the items accepted
Logged(items, q) == [items |-> items, accepted |-> NewItems(q, items)]

\* a batch run at the start of its drain loop (line 1144): its request's items
\* were accepted into the empty queue (line 931) and the state initialised
\* (lines 941-948)
InitDrain ==
    \E items \in Payloads :
        /\ queue = NewItems(<<>>, items) /\ lastAdded = Len(queue)
        /\ search_state = [DefaultState EXCEPT !.active = TRUE, !.total = Len(queue)]
        /\ runs = [r \in RunIds |->
                IF r = 1 THEN [FreshRun EXCEPT !.pc = "drain", !.items = items] ELSE FreshRun]
        /\ reqs = <<Logged(items, <<>>)>>
        /\ disk = [FreshDisk EXCEPT !.queue = queue, !.state = <<search_state>>]
        /\ results = EmptyResults
        /\ CONFIG = DEFAULT_CONFIG
        /\ peer = BatchPeer
        /\ downloads = <<>>
        /\ offers = <<>> /\ ranked = <<"none">>
        /\ call = <<>> /\ http = <<>> /\ limiter = <<>>

\* another thread calls queue_manager.add_items (line 931 of a later
\* background_search_task invocation, line 1276 of the delete route)
Enqueue ==
    \E items \in SeqsUpTo(Items, MaxAdd) :
        /\ Len(reqs) <= MaxEnqueues
        /\ add_items(items)
        /\ reqs' = Append(reqs, Logged(items, queue))
        /\ UNCHANGED <<search_state, runs, results, downloads, CONFIG, peer, offers, ranked, call, http, limiter>>

NextDrain == Enqueue \/ BgDrain(1)

\* add_items calls interleaved with the get_next calls of one drain loop
SpecDrain == InitDrain /\ [][NextDrain]_vars

RECURSIVE Accepted(_)
\* the items add_items accepted, in the order of acceptance
Accepted(log) ==
    IF log = <<>> THEN <<>>
    ELSE Accepted(SubSeq(log, 1, Len(log) - 1)) \o log[Len(log)].accepted

\* how often the item occurs in the list
Count(it, list) == Cardinality({i \in 1..Len(list) : list[i] = it})

\* C35: under every interleaving of add_items calls with the drain loop,
\* each accepted item is exactly once in the drained batch or in the queue:
\* none is lost and none is in both.
C35_AcceptedExactlyOnce ==
    \A it \in Items :
        Count(it, runs[1].batch) + Count(it, queue) = Count(it, Accepted(reqs))

\* the drain loop had returned an item of the run's request when a call
\* added the same item again, and the loop has not ended: the item is in the
\* batch once and in the queue once
C35_Witness ==
    /\ runs[1].pc = "drain"
    /\ Len(reqs) = 2
    /\ \E it \in Items :
          /\ Count(it, reqs[1].accepted) = 1 /\ Count(it, reqs[2].accepted) = 1
          /\ Count(it, runs[1].batch) = 1 /\ Count(it, queue) = 1

\* C36: the queue is first-in first-out: the items the drain has returned,
\* followed by the items still waiting, are the accepted items in the order
\* of their acceptance (earlier calls first, list order within a call).
C36_DrainInAcceptanceOrder == runs[1].batch \o queue = Accepted(reqs)

\* the drain returned three items, accepted by more than one call, in the
\* order of their acceptance
C36_Witness ==
    /\ runs[1].pc = "submit"
    /\ Len(runs[1].batch) = 3
    /\ runs[1].batch = Accepted(reqs)
    /\ Len(reqs[1].accepted) < 3

\* ------------------------------------------------ the canonical metadata
\* the best candidate the metadata service has for an item: search_recording
\* finds one for every item that has a title
MbCandidate(item) == IF item.title /= "" THEN Some(MbMeta) ELSE None

\* C37: for an item with a title for which the metadata service has a best
\* candidate, the track record a worker persists carries that metadata.
C37_RecordCarriesMetadata ==
    [][\A r \in RunIds, w \in WorkerIds :
        (/\ runs[r].w[w].pc = "search" /\ runs'[r].w[w].pc \in {"store", "hung"}
         /\ MbCandidate(runs[r].w[w].item) /= None)
        => call'[1].musicbrainz = MbCandidate(runs[r].w[w].item)]_vars

\* ------------------------------------------------ the availability term
MaxQueueLength == 12    \* longest peer queue scored

\* two offers that differ in the queue length only
InitAvail ==
    /\ offers \in {<<[BaseOffer EXCEPT !.queue_length = q1],
                      [BaseOffer EXCEPT !.queue_length = q2]>> :
                        q1 \in 0..MaxQueueLength, q2 \in 0..MaxQueueLength}
    /\ ranked = <<"none">>
    /\ queue = <<>> /\ lastAdded = 0
    /\ search_state = <<>> /\ runs = <<>> /\ results = <<>>
    /\ downloads = <<>> /\ reqs = <<>> /\ CONFIG = <<>> /\ peer = <<>>
    /\ call = <<>> /\ http = <<>> /\ limiter = <<>> /\ disk = <<>>

\* lines 297-304 of calculate_quality_score for each of the two offers
ScoreAvail ==
    /\ ranked = <<"none">>
    /\ ranked' = <<QueueTerm(offers[1]), QueueTerm(offers[2])>>
    /\ UNCHANGED <<queue, lastAdded, search_state, runs, results, downloads, reqs, CONFIG, peer, offers, call, http, limiter, disk>>

NextAvail == ScoreAvail

SpecAvail == InitAvail /\ [][NextAvail]_vars

\* C38: the availability term does not grow with the queue length: of two
\* queue lengths the longer one never gets the larger term.
C38_LongerQueueNeverBetter ==
    (ranked /= <<"none">> /\ offers[1].queue_length < offers[2].queue_length)
    => ranked[2] <= ranked[1]

\* ------------------------------------------------ the deduplication key
MaxDedup == 3       \* most offers collected for one item

\* offers of peers and files whose names hold the character that joins the key
DedupOffers ==
    {[Scored(BaseOffer, None) EXCEPT !.username = u, !.filename = f] :
        u \in {"u", "u_1"}, f \in {"f", "1_f"}}

\* the offers collected for an item, before lines 1098-1105
InitDedup ==
    /\ offers \in SeqsUpTo(DedupOffers, MaxDedup)
    /\ ranked = <<"none">>
    /\ queue = <<>> /\ lastAdded = 0
    /\ search_state = <<>> /\ runs = <<>> /\ results = <<>>
    /\ downloads = <<>> /\ reqs = <<>> /\ CONFIG = <<>> /\ peer = <<>>
    /\ call = <<>> /\ http = <<>> /\ limiter = <<>> /\ disk = <<>>

\* lines 1098-1105: unique_results
DedupStep ==
    /\ ranked = <<"none">>
    /\ ranked' = <<Dedup(offers, {})>>
    /\ UNCHANGED <<queue, lastAdded, search_state, runs, results, downloads, reqs, CONFIG, peer, offers, call, http, limiter, disk>>

NextDedup == DedupStep

SpecDedup == InitDedup /\ [][NextDedup]_vars

\* C39: deduplication collapses no two offers whose (username, filename)
\* pairs differ: two collected offers have the same key only if their pairs
\* are equal, so every pair collected is among the offers kept.
C39_DistinctPairsKept ==
    ranked /= <<"none">> =>
        /\ \A i, j \in 1..Len(offers) :
              DedupKey(offers[i]) = DedupKey(offers[j]) => Pair(offers[i]) = Pair(offers[j])
        /\ \A i \in 1..Len(offers) :
              \E k \in 1..Len(ranked[1]) : Pair(ranked[1][k]) = Pair(offers[i])

====
